---- MODULE Spec2Model ----
(***************************************************************************)
(* A model of json_encoders.py: the QMK pretty-printers (QMKJSONEncoder,   *)
(* InfoJSONEncoder, KeymapJSONEncoder) and the KLE float-normalising       *)
(* encoder (KLEJSONEncoder).                                               *)
(*                                                                         *)
(* A Python str is a sequence of one-character strings, so that quoting,   *)
(* escaping, joining and line structure are computed character by          *)
(* character.  A document value is a record tagged by its Python type:     *)
(*   [t |-> "null"]  [t |-> "bool", b]  [t |-> "int", i]                   *)
(*   [t |-> "float", f]  (f in tenths: 25 is 2.5)                          *)
(*   [t |-> "dec", d]    (a decimal.Decimal with one fractional digit,     *)
(*                        d in tenths: 20 is Decimal('2.0'))               *)
(*   [t |-> "str", s]    [t |-> "bytes"]  (b'', a type json cannot encode) *)
(*   [t |-> "list", items]                                                 *)
(*   [t |-> "dict", pairs]  (pairs: <<[k, v], ...>> in insertion order)    *)
(* What a method returns or raises is a record as well:                    *)
(*   [t |-> "text", s]  a str;  [t |-> "int", i] / [t |-> "float", f] a    *)
(*   number object (not a str);  [t |-> "TypeError"] a raised TypeError.   *)
(***************************************************************************)
EXTENDS Integers, Sequences, FiniteSets, TLC

VARIABLES
    cls,                \* class of the encoder instance
    indent,             \* self.indent (-1 models None)
    indentation_level,  \* self.indentation_level
    phase,              \* "idle": no call in progress; "done": a call has ended
    op,                 \* the method the last call entered
    obj,                \* the argument of the last call
    result,             \* what the last call returned or raised
    start,              \* indentation_level when the last call began
    accel               \* whether c_make_encoder was available in the last call

vars == <<cls, indent, indentation_level, phase, op, obj, result, start, accel>>

(***************************** bounds ***************************************)
MaxLen == 3      \* longest generated sequence
MaxKeys == 3     \* most keys in a generated mapping
MaxLevel == 4    \* encode is not called again once the depth exceeds this

(***************************** characters ***********************************)
\* Code points of the characters the model uses (ASCII).
Ord ==
    ("\n" :> 10) @@ (" " :> 32) @@ ("\"" :> 34) @@ ("'" :> 39) @@ ("(" :> 40) @@
    (")" :> 41) @@ ("," :> 44) @@ ("-" :> 45) @@ ("." :> 46) @@
    ("0" :> 48) @@ ("1" :> 49) @@ ("2" :> 50) @@ ("3" :> 51) @@ ("4" :> 52) @@
    ("5" :> 53) @@ ("6" :> 54) @@ ("7" :> 55) @@ ("8" :> 56) @@ ("9" :> 57) @@
    (":" :> 58) @@
    ("A" :> 65) @@ ("B" :> 66) @@ ("C" :> 67) @@ ("D" :> 68) @@ ("E" :> 69) @@
    ("F" :> 70) @@ ("I" :> 73) @@ ("J" :> 74) @@ ("K" :> 75) @@ ("L" :> 76) @@
    ("N" :> 78) @@ ("O" :> 79) @@ ("S" :> 83) @@ ("T" :> 84) @@ ("W" :> 87) @@
    ("[" :> 91) @@ ("\\" :> 92) @@ ("]" :> 93) @@ ("_" :> 95) @@
    ("a" :> 97) @@ ("b" :> 98) @@ ("c" :> 99) @@ ("d" :> 100) @@ ("e" :> 101) @@
    ("f" :> 102) @@ ("g" :> 103) @@ ("h" :> 104) @@ ("i" :> 105) @@
    ("k" :> 107) @@ ("l" :> 108) @@ ("m" :> 109) @@ ("n" :> 110) @@
    ("o" :> 111) @@ ("p" :> 112) @@ ("r" :> 114) @@ ("s" :> 115) @@
    ("t" :> 116) @@ ("u" :> 117) @@ ("v" :> 118) @@ ("x" :> 120) @@
    ("y" :> 121) @@ ("z" :> 122) @@ ("{" :> 123) @@ ("}" :> 125)

\* Python's str < str: lexicographic by code point.
RECURSIVE StrLess(_, _)
StrLess(a, b) ==
    IF a = <<>> THEN b # <<>>
    ELSE IF b = <<>> THEN FALSE
    ELSE IF Head(a) = Head(b) THEN StrLess(Tail(a), Tail(b))
    ELSE Ord[Head(a)] < Ord[Head(b)]

\* sep.join(texts)
RECURSIVE Join(_, _)
Join(sep, texts) ==
    IF texts = <<>> THEN <<>>
    ELSE IF Len(texts) = 1 THEN texts[1]
    ELSE texts[1] \o sep \o Join(sep, Tail(texts))

\* " " * n
Spaces(n) == [i \in 1..n |-> " "]

Digit(d) == <<"0", "1", "2", "3", "4", "5", "6", "7", "8", "9">>[d + 1]

\* int.__repr__
RECURSIVE IntStr(_)
IntStr(n) ==
    IF n < 0 THEN <<"-">> \o IntStr(-n)
    ELSE IF n < 10 THEN <<Digit(n)>>
    ELSE IntStr(n \div 10) \o <<Digit(n % 10)>>

\* float.__repr__ of a non-negative float with one fractional digit
FloatRepr(f) == IntStr(f \div 10) \o <<".">> \o <<Digit(f % 10)>>

(***************************** string literals ******************************)
JSON_NEWLINE == <<"J", "S", "O", "N", "_", "N", "E", "W", "L", "I", "N", "E">>
KC_A == <<"K", "C", "_", "A">>
KC_B == <<"K", "C", "_", "B">>
manufacturer == <<"m", "a", "n", "u", "f", "a", "c", "t", "u", "r", "e", "r">>
keyboard_name == <<"k", "e", "y", "b", "o", "a", "r", "d", "_", "n", "a", "m", "e">>
maintainer == <<"m", "a", "i", "n", "t", "a", "i", "n", "e", "r">>
processor == <<"p", "r", "o", "c", "e", "s", "s", "o", "r">>
bootloader == <<"b", "o", "o", "t", "l", "o", "a", "d", "e", "r">>
usb == <<"u", "s", "b">>
features == <<"f", "e", "a", "t", "u", "r", "e", "s">>
community_layouts ==
    <<"c", "o", "m", "m", "u", "n", "i", "t", "y", "_", "l", "a", "y", "o", "u", "t", "s">>
layout_aliases == <<"l", "a", "y", "o", "u", "t", "_", "a", "l", "i", "a", "s", "e", "s">>
layouts == <<"l", "a", "y", "o", "u", "t", "s">>
vid == <<"v", "i", "d">>
pid == <<"p", "i", "d">>
device_ver == <<"d", "e", "v", "i", "c", "e", "_", "v", "e", "r">>
version == <<"v", "e", "r", "s", "i", "o", "n">>
author == <<"a", "u", "t", "h", "o", "r">>
notes == <<"n", "o", "t", "e", "s">>
layers == <<"l", "a", "y", "e", "r", "s">>
documentation == <<"d", "o", "c", "u", "m", "e", "n", "t", "a", "t", "i", "o", "n">>

(***************************** values ***************************************)
VNull == [t |-> "null"]
VBool(b) == [t |-> "bool", b |-> b]
VInt(i) == [t |-> "int", i |-> i]
VFloat(f) == [t |-> "float", f |-> f]
VDec(d) == [t |-> "dec", d |-> d]
VStr(s) == [t |-> "str", s |-> s]
VBytes == [t |-> "bytes"]
VList(items) == [t |-> "list", items |-> items]
VDict(pairs) == [t |-> "dict", pairs |-> pairs]
KV(k, v) == [k |-> k, v |-> v]

Text(s) == [t |-> "text", s |-> s]
TypeError == [t |-> "TypeError"]

\* container_types = (list, tuple, dict)
IsContainer(v) == v.t \in {"list", "dict"}

\* f"{x}" of what encode returned: a str as it is, a number by its str()
Fmt(r) ==
    CASE r.t = "text" -> r.s
      [] r.t = "int" -> IntStr(r.i)
      [] r.t = "float" -> FloatRepr(r.f)

(***************************** the stock encoder ****************************)
\* json.encoder.encode_basestring_ascii: the quoted, escaped JSON string
EscapeChar(c) ==
    CASE c = "\"" -> <<"\\", "\"">>
      [] c = "\\" -> <<"\\", "\\">>
      [] c = "\n" -> <<"\\", "n">>
      [] OTHER -> <<c>>

RECURSIVE Escape(_)
Escape(s) == IF s = <<>> THEN <<>> ELSE EscapeChar(Head(s)) \o Escape(Tail(s))

encode_basestring_ascii(s) == <<"\"">> \o Escape(s) \o <<"\"">>

\* json.JSONEncoder.encode of a value that is no Decimal, list or dict
\* (floats by float.__repr__; anything else reaches default(), which raises).
JSONEncoder_encode(o) ==
    CASE o.t = "str" -> Text(encode_basestring_ascii(o.s))
      [] o.t = "null" -> Text(<<"n", "u", "l", "l">>)
      [] o.t = "bool" ->
            Text(IF o.b THEN <<"t", "r", "u", "e">> ELSE <<"f", "a", "l", "s", "e">>)
      [] o.t = "int" -> Text(IntStr(o.i))
      [] o.t = "float" -> Text(FloatRepr(o.f))
      [] OTHER -> TypeError

(***************************** QMKJSONEncoder *******************************)
\* self.indent after __init__ with no arguments ("if not self.indent")
DefaultIndent == 4

\* indent_str: indentation_char * (indentation_level * indent)
indent_str(lvl) == Spaces(lvl * DefaultIndent)

\* encode_decimal returns a number object, not a str
encode_decimal(o) ==
    IF o.d % 10 = 0 THEN [t |-> "int", i |-> o.d \div 10]
    ELSE [t |-> "float", f |-> o.d]

\* primitives_only: no element (no value, for a dict) is a list, tuple or dict
primitives_only(o) ==
    IF o.t = "dict" THEN \A i \in 1..Len(o.pairs) : ~IsContainer(o.pairs[i].v)
    ELSE \A i \in 1..Len(o.items) : ~IsContainer(o.items[i])

\* sorted(pairs, key=...): a stable sort; ranks[i] is the key of pairs[i], and
\* each pair is placed after every pair whose rank is not greater than its own.
RECURSIVE InsertByRank(_, _)
InsertByRank(e, sorted) ==
    IF sorted = <<>> THEN <<e>>
    ELSE IF StrLess(e.rank, Head(sorted).rank)
         THEN <<e>> \o sorted
         ELSE <<Head(sorted)>> \o InsertByRank(e, Tail(sorted))

RECURSIVE SortRanked(_)
SortRanked(es) ==
    IF es = <<>> THEN <<>>
    ELSE InsertByRank(es[Len(es)], SortRanked(SubSeq(es, 1, Len(es) - 1)))

sorted(pairs, ranks) ==
    LET es == [i \in 1..Len(pairs) |-> [p |-> pairs[i], rank |-> ranks[i]]]
        out == SortRanked(es)
    IN  [i \in 1..Len(out) |-> out[i].p]

\* Info_sort_dict without the '50' tier of the keys it does not name
Info_sort_dict_no_tier(lvl, key) ==
    IF lvl = 1 THEN
        CASE key = manufacturer -> <<"1", "0">> \o keyboard_name
          [] key = keyboard_name -> <<"1", "1">> \o keyboard_name
          [] key = maintainer -> <<"1", "2">> \o maintainer
          [] key = processor -> <<"1", "3">> \o processor
          [] key = bootloader -> <<"1", "4">> \o bootloader
          [] key = usb -> <<"1", "5">> \o usb
          [] key = features -> <<"1", "6">> \o bootloader
          [] key = community_layouts -> <<"9", "7">> \o community_layouts
          [] key = layout_aliases -> <<"9", "8">> \o layout_aliases
          [] key = layouts -> <<"9", "9">> \o layouts
          [] OTHER -> key
    ELSE IF lvl = 2 THEN
        CASE key = vid -> <<"1", "0">> \o vid
          [] key = pid -> <<"1", "1">> \o pid
          [] key = device_ver -> <<"1", "2">> \o device_ver
          [] OTHER -> key
    ELSE key

\* InfoJSONEncoder.sort_dict at self.indentation_level = lvl
Info_sort_dict(lvl, key) ==
    IF lvl = 1 THEN
        CASE key = manufacturer -> <<"1", "0">> \o keyboard_name
          [] key = keyboard_name -> <<"1", "1">> \o keyboard_name
          [] key = maintainer -> <<"1", "2">> \o maintainer
          [] key = processor -> <<"1", "3">> \o processor
          [] key = bootloader -> <<"1", "4">> \o bootloader
          [] key = usb -> <<"1", "5">> \o usb
          [] key = features -> <<"1", "6">> \o bootloader
          [] key = community_layouts -> <<"9", "7">> \o community_layouts
          [] key = layout_aliases -> <<"9", "8">> \o layout_aliases
          [] key = layouts -> <<"9", "9">> \o layouts
          [] OTHER -> <<"5", "0">> \o key
    ELSE IF lvl = 2 THEN
        CASE key = vid -> <<"1", "0">> \o vid
          [] key = pid -> <<"1", "1">> \o pid
          [] key = device_ver -> <<"1", "2">> \o device_ver
          [] OTHER -> key
    ELSE key

\* KeymapJSONEncoder.sort_dict at self.indentation_level = lvl
Keymap_sort_dict(lvl, key) ==
    IF lvl = 1 THEN
        CASE key = version -> <<"0", "0">> \o version
          [] key = author -> <<"0", "1">> \o author
          [] key = notes -> <<"0", "2">> \o notes
          [] key = layers -> <<"9", "8">> \o layers
          [] key = documentation -> <<"9", "9">> \o documentation
          [] OTHER -> <<"5", "0">> \o key
    ELSE key

(***************************** str() and repr() *****************************)
\* repr of a str holding no single quote: single-quoted, backslash and line
\* break escaped.
ReprChar(c) ==
    CASE c = "\\" -> <<"\\", "\\">>
      [] c = "\n" -> <<"\\", "n">>
      [] OTHER -> <<c>>

RECURSIVE ReprChars(_)
ReprChars(s) == IF s = <<>> THEN <<>> ELSE ReprChar(Head(s)) \o ReprChars(Tail(s))

RECURSIVE PyRepr(_)
PyReprAll(vs) == [i \in 1..Len(vs) |-> PyRepr(vs[i])]
PyReprPairs(ps) ==
    [i \in 1..Len(ps) |-> <<"'">> \o ReprChars(ps[i].k) \o <<"'", ":", " ">> \o PyRepr(ps[i].v)]
PyRepr(v) ==
    CASE v.t = "str" -> <<"'">> \o ReprChars(v.s) \o <<"'">>
      [] v.t = "int" -> IntStr(v.i)
      [] v.t = "float" -> FloatRepr(v.f)
      [] v.t = "dec" ->
            <<"D", "e", "c", "i", "m", "a", "l", "(", "'">> \o FloatRepr(v.d) \o <<"'", ")">>
      [] v.t = "bool" -> IF v.b THEN <<"T", "r", "u", "e">> ELSE <<"F", "a", "l", "s", "e">>
      [] v.t = "null" -> <<"N", "o", "n", "e">>
      [] v.t = "bytes" -> <<"b", "'", "'">>
      [] v.t = "list" -> <<"[">> \o Join(<<",", " ">>, PyReprAll(v.items)) \o <<"]">>
      [] v.t = "dict" -> <<"{">> \o Join(<<",", " ">>, PyReprPairs(v.pairs)) \o <<"}">>

\* f'{key}' of a value that is no dict: str(key)
PyStr(v) ==
    CASE v.t = "str" -> v.s
      [] v.t = "dec" -> FloatRepr(v.d)
      [] OTHER -> PyRepr(v)

(***************************** encode ***************************************)
\* Every method below takes self.indentation_level as lvl and returns
\* [r |-> what it returns or raises, lvl |-> self.indentation_level after it].
RECURSIVE encode(_, _, _)
RECURSIVE QMK_encode_list(_, _, _)
RECURSIVE Info_encode_dict(_, _)
RECURSIVE Keymap_encode_dict(_, _)
RECURSIVE Keymap_encode_list(_, _)

\* [... self.encode(element) for element in objs]: the elements in order, stopped
\* by the first one that raises or, where a str is required (str + ..., join),
\* the first one that is no str.  Each output keeps the depth it was encoded at.
RECURSIVE EncodeEach(_, _, _, _)
EncodeEach(c, lvl, objs, needText) ==
    IF objs = <<>> THEN [ok |-> TRUE, outs |-> <<>>, lvl |-> lvl]
    ELSE LET h == encode(c, lvl, Head(objs))
         IN  IF h.r.t = "TypeError" \/ (needText /\ h.r.t # "text")
             THEN [ok |-> FALSE, outs |-> <<>>, lvl |-> h.lvl]
             ELSE LET rest == EncodeEach(c, h.lvl, Tail(objs), needText)
                  IN  [ok |-> rest.ok,
                       outs |-> <<[at |-> lvl, s |-> Fmt(h.r)]>> \o rest.outs,
                       lvl |-> rest.lvl]

Values(pairs) == [i \in 1..Len(pairs) |-> pairs[i].v]
Keys(pairs) == [i \in 1..Len(pairs) |-> pairs[i].k]
Plain(outs) == [i \in 1..Len(outs) |-> outs[i].s]
Indented(outs) == [i \in 1..Len(outs) |-> indent_str(outs[i].at) \o outs[i].s]
\* indent_str + f"{json.dumps(key)}: {value}" for each pair
Entries(pairs, outs) ==
    [i \in 1..Len(outs) |->
        indent_str(outs[i].at) \o encode_basestring_ascii(pairs[i].k)
            \o <<":", " ">> \o outs[i].s]

\* QMKJSONEncoder.encode_list
QMK_encode_list(c, lvl, o) ==
    IF primitives_only(o)
    THEN LET e == EncodeEach(c, lvl, o.items, TRUE)
         IN  IF e.ok
             THEN [r |-> Text(<<"[">> \o Join(<<",", " ">>, Plain(e.outs)) \o <<"]">>),
                   lvl |-> e.lvl]
             ELSE [r |-> TypeError, lvl |-> e.lvl]
    ELSE LET e == EncodeEach(c, lvl + 1, o.items, TRUE)
         IN  IF e.ok
             THEN [r |-> Text(<<"[", "\n">> \o Join(<<",", "\n">>, Indented(e.outs))
                              \o <<"\n">> \o indent_str(e.lvl - 1) \o <<"]">>),
                   lvl |-> e.lvl - 1]
             ELSE [r |-> TypeError, lvl |-> e.lvl]

\* InfoJSONEncoder.encode_dict
Info_encode_dict(lvl, o) ==
    IF o.pairs = <<>> THEN [r |-> Text(<<"{", "}">>), lvl |-> lvl]
    ELSE IF lvl = 4
    THEN LET ps == sorted(o.pairs, Keys(o.pairs))
             e == EncodeEach("Info", lvl, Values(ps), FALSE)
             items == [i \in 1..Len(ps) |->
                          encode_basestring_ascii(ps[i].k) \o <<":", " ">> \o e.outs[i].s]
         IN  IF e.ok
             THEN [r |-> Text(<<"{", " ">> \o Join(<<",", " ">>, items) \o <<" ", "}">>),
                   lvl |-> e.lvl]
             ELSE [r |-> TypeError, lvl |-> e.lvl]
    ELSE LET ps == sorted(o.pairs,
                     [i \in 1..Len(o.pairs) |-> Info_sort_dict(lvl + 1, o.pairs[i].k)])
             e == EncodeEach("Info", lvl + 1, Values(ps), FALSE)
         IN  IF e.ok
             THEN [r |-> Text(<<"{", "\n">> \o Join(<<",", "\n">>, Entries(ps, e.outs))
                              \o <<"\n">> \o indent_str(e.lvl - 1) \o <<"}">>),
                   lvl |-> e.lvl - 1]
             ELSE [r |-> TypeError, lvl |-> e.lvl]

\* Keymap_encode_dict putting a mapping of scalars on one line
Keymap_encode_dict_inline(lvl, o) ==
    IF o.pairs = <<>> THEN [r |-> Text(<<"{", "}">>), lvl |-> lvl]
    ELSE LET ps == sorted(o.pairs,
                     [i \in 1..Len(o.pairs) |-> Keymap_sort_dict(lvl + 1, o.pairs[i].k)])
             e == EncodeEach("Keymap", lvl + 1, Values(ps), FALSE)
             flat == [i \in 1..Len(ps) |->
                         encode_basestring_ascii(ps[i].k) \o <<":", " ">> \o e.outs[i].s]
         IN  IF ~e.ok THEN [r |-> TypeError, lvl |-> e.lvl]
             ELSE IF primitives_only(o)
             THEN [r |-> Text(<<"{">> \o Join(<<",", " ">>, flat) \o <<"}">>),
                   lvl |-> e.lvl - 1]
             ELSE [r |-> Text(<<"{", "\n">> \o Join(<<",", "\n">>, Entries(ps, e.outs))
                              \o <<"\n">> \o indent_str(e.lvl - 1) \o <<"}">>),
                   lvl |-> e.lvl - 1]

\* KeymapJSONEncoder.encode_dict
Keymap_encode_dict(lvl, o) ==
    IF o.pairs = <<>> THEN [r |-> Text(<<"{", "}">>), lvl |-> lvl]
    ELSE LET ps == sorted(o.pairs,
                     [i \in 1..Len(o.pairs) |-> Keymap_sort_dict(lvl + 1, o.pairs[i].k)])
             e == EncodeEach("Keymap", lvl + 1, Values(ps), FALSE)
         IN  IF e.ok
             THEN [r |-> Text(<<"{", "\n">> \o Join(<<",", "\n">>, Entries(ps, e.outs))
                              \o <<"\n">> \o indent_str(e.lvl - 1) \o <<"}">>),
                   lvl |-> e.lvl - 1]
             ELSE [r |-> TypeError, lvl |-> e.lvl]

\* The loop of KeymapJSONEncoder.encode_list over a list of keycodes: layer is
\* the rows so far, the last one still open.
RECURSIVE KeymapRows(_, _, _)
KeymapRows(lvl, items, layer) ==
    IF items = <<>> THEN [ok |-> TRUE, layer |-> layer, lvl |-> lvl]
    ELSE LET key == Head(items)
             n == Len(layer)
         IN  IF key.t = "str" /\ key.s = JSON_NEWLINE
             THEN KeymapRows(lvl, Tail(items), Append(layer, <<>>))
             ELSE IF key.t = "dict"
             THEN LET h == encode("Keymap", lvl, key)
                  IN  IF h.r.t = "TypeError"
                      THEN [ok |-> FALSE, layer |-> layer, lvl |-> h.lvl]
                      ELSE KeymapRows(h.lvl, Tail(items),
                                      [layer EXCEPT ![n] = Append(@, Fmt(h.r))])
             ELSE KeymapRows(lvl, Tail(items),
                             [layer EXCEPT ![n] = Append(@, <<"\"">> \o PyStr(key) \o <<"\"">>)])

\* KeymapJSONEncoder.encode_list
Keymap_encode_list(lvl, o) ==
    IF lvl = 2
    THEN LET indent_level == lvl + 1
             e == KeymapRows(lvl, o.items, <<<<>>>>)
             rows == [i \in 1..Len(e.layer) |->
                         Spaces(Len(indent_str(e.lvl)) * indent_level)
                             \o Join(<<",", " ">>, e.layer[i])]
         IN  IF e.ok
             THEN [r |-> Text(indent_str(e.lvl) \o <<"[", "\n">> \o Join(<<"\n">>, rows)
                              \o <<"\n">> \o Spaces(Len(indent_str(e.lvl)) * e.lvl)
                              \o <<"]">>),
                   lvl |-> e.lvl]
             ELSE [r |-> TypeError, lvl |-> e.lvl]
    ELSE QMK_encode_list("Keymap", lvl, o)

\* QMKJSONEncoder.encode
encode(c, lvl, o) ==
    CASE o.t = "dec" -> [r |-> encode_decimal(o), lvl |-> lvl]
      [] o.t = "list" ->
            IF c = "Keymap" THEN Keymap_encode_list(lvl, o) ELSE QMK_encode_list(c, lvl, o)
      [] o.t = "dict" ->
            IF c = "Keymap" THEN Keymap_encode_dict(lvl, o) ELSE Info_encode_dict(lvl, o)
      [] OTHER -> [r |-> JSONEncoder_encode(o), lvl |-> lvl]

(***************************** KLEJSONEncoder *******************************)
\* floatstr of KLEJSONEncoder.iterencode, on a finite float
floatstr(f) ==
    IF f = (f \div 10) * 10 THEN IntStr(f \div 10)   \* o == int(o): int(o).__repr__()
    ELSE FloatRepr(f)                               \* _repr(o)

\* The float text of the encoder iterencode builds: c_make_encoder is not given
\* floatstr and writes float.__repr__; _make_iterencode is given floatstr.
KLE_float(f, ind, one_shot, c_make_encoder) ==
    IF one_shot /\ c_make_encoder /\ ind = -1 THEN FloatRepr(f) ELSE floatstr(f)

\* '\n' + ' ' * (indent * level), or nothing when indent is None
NewlineIndent(ind, level) == IF ind = -1 THEN <<>> ELSE <<"\n">> \o Spaces(ind * level)

\* JSONEncoder.__init__: item_separator is ',' once an indent is given
ItemSeparator(ind) == IF ind = -1 THEN <<",", " ">> ELSE <<",">>

\* The encoder iterencode returns, applied to o at nesting level `level`: the
\* chunks joined, or TypeError from default().
RECURSIVE KLE_chunks(_, _, _, _, _)
KLE_all(vs, ind, one_shot, c, level) ==
    [i \in 1..Len(vs) |-> KLE_chunks(vs[i], ind, one_shot, c, level)]
KLE_chunks(o, ind, one_shot, c, level) ==
    CASE o.t = "float" -> Text(KLE_float(o.f, ind, one_shot, c))
      [] o.t = "list" ->
            IF o.items = <<>> THEN Text(<<"[", "]">>)
            ELSE LET rs == KLE_all(o.items, ind, one_shot, c, level + 1)
                 IN  IF \E i \in 1..Len(rs) : rs[i].t # "text" THEN TypeError
                     ELSE Text(<<"[">> \o NewlineIndent(ind, level + 1)
                               \o Join(ItemSeparator(ind) \o NewlineIndent(ind, level + 1),
                                       [i \in 1..Len(rs) |-> rs[i].s])
                               \o NewlineIndent(ind, level) \o <<"]">>)
      [] o.t = "dict" ->
            IF o.pairs = <<>> THEN Text(<<"{", "}">>)
            ELSE LET rs == KLE_all(Values(o.pairs), ind, one_shot, c, level + 1)
                 IN  IF \E i \in 1..Len(rs) : rs[i].t # "text" THEN TypeError
                     ELSE Text(<<"{">> \o NewlineIndent(ind, level + 1)
                               \o Join(ItemSeparator(ind) \o NewlineIndent(ind, level + 1),
                                       [i \in 1..Len(rs) |->
                                           encode_basestring_ascii(o.pairs[i].k)
                                               \o <<":", " ">> \o rs[i].s])
                               \o NewlineIndent(ind, level) \o <<"}">>)
      [] OTHER -> JSONEncoder_encode(o)

\* KLEJSONEncoder.iterencode(o, _one_shot)
KLE_iterencode(o, ind, one_shot, c_make_encoder) ==
    KLE_chunks(o, ind, one_shot, c_make_encoder, 0)

\* JSONEncoder.encode, inherited: a str directly, anything else through
\* self.iterencode(o, _one_shot=True)
KLE_encode(o, ind, c_make_encoder) ==
    IF o.t = "str" THEN Text(encode_basestring_ascii(o.s))
    ELSE KLE_iterencode(o, ind, TRUE, c_make_encoder)

(***************************** the documents ********************************)
\* The documents a caller passes, bounded: strings, numbers and keys from small
\* sets that hold the sentinel, a string with a line break, the keys sort_dict
\* names and keys that sort before and after them.
WithBreak == <<"a", "\n", "b">>

SeqsUpTo(S, n) == UNION {[1..k -> S] : k \in 0..n}

DistinctSeqs(S, n) == {q \in SeqsUpTo(S, n) : \A i, j \in 1..Len(q) : i # j => q[i] # q[j]}

Scalars ==
    {VNull, VBool(TRUE), VInt(2), VFloat(20), VFloat(25), VDec(20), VDec(25),
     VStr(KC_A), VStr(JSON_NEWLINE), VStr(WithBreak), VBytes}

ListElems ==
    {VStr(KC_A), VStr(JSON_NEWLINE), VStr(WithBreak), VDec(20), VList(<<VInt(2)>>)}

Lists == {VList(q) : q \in SeqsUpTo(ListElems, MaxLen)}

TopKeys ==
    {manufacturer, keyboard_name, bootloader, usb, features, community_layouts, layouts,
     <<"a", "b">>, <<"z", "z">>}
UsbKeys == {vid, pid, device_ver, <<"0", "a">>, <<"1", "0">> \o vid}
KeymapKeys == {version, notes, layers, <<"a", "b">>}
OtherKeys == {<<"a", "b">>, <<"z", "z">>, usb}

\* Mappings whose values are all the integer 2, over the keys sort_dict names.
KeySeqs ==
    (DistinctSeqs(TopKeys, MaxKeys) \cup DistinctSeqs(UsbKeys, MaxKeys)
        \cup DistinctSeqs(KeymapKeys, MaxKeys)) \ {<<>>}

\* Mappings whose first inserted key holds one of these values; the other keys
\* hold the integer 2.
FirstValues ==
    {VDec(20), VFloat(20), VBytes,
     VList(<<VList(<<VInt(2)>>)>>),
     VList(<<VStr(KC_A), VStr(JSON_NEWLINE), VStr(KC_B)>>),
     VDict(<<KV(pid, VInt(2)), KV(vid, VInt(2))>>)}

Mapping(ks, v) == VDict([i \in 1..Len(ks) |-> KV(ks[i], IF i = 1 THEN v ELSE VInt(2))])

Mappings ==
    {VDict(<<>>)}
    \cup {Mapping(ks, VInt(2)) : ks \in KeySeqs}
    \cup {Mapping(ks, v) : ks \in DistinctSeqs(OtherKeys, MaxKeys) \ {<<>>}, v \in FirstValues}

\* A top-level mapping holding a usb mapping, and a list of layers.
Nested ==
    {VDict(<<KV(usb, Mapping(ks, VInt(2)))>>) : ks \in DistinctSeqs(UsbKeys, MaxKeys) \ {<<>>}}
    \cup {VDict(<<KV(layers, VList(<<l>>))>>) :
            l \in {VList(q) : q \in SeqsUpTo({VStr(KC_A), VStr(JSON_NEWLINE)}, MaxLen)}}

\* The documents the specification gives as examples.
Examples ==
    {VDict(<<KV(layouts, VList(<<VList(<<VInt(2)>>)>>)), KV(manufacturer, VStr(<<"X">>)),
             KV(usb, VDict(<<KV(pid, VInt(1)), KV(vid, VInt(2))>>)),
             KV(bootloader, VStr(<<"b">>))>>),
     VList(<<VStr(KC_A), VStr(KC_B), VStr(JSON_NEWLINE), VStr(<<"K", "C", "_", "C">>)>>),
     VList(<<VFloat(10), VDict(<<KV(<<"x">>, VFloat(20)), KV(<<"y">>, VFloat(25))>>)>>)}

Docs == Scalars \cup Lists \cup Mappings \cup Nested \cup Examples

(***************************** the state machine ****************************)
NoCall == [t |-> "none"]

QMKClasses == {"Info", "Keymap"}

\* KLEJSONEncoder(indent=...): None (-1) or 2
KLEIndents == {-1, 2}

Idle(c, ind) ==
    /\ cls = c
    /\ indent = ind
    /\ indentation_level = 0
    /\ phase = "idle"
    /\ op = "none"
    /\ obj = NoCall
    /\ result = NoCall
    /\ start = 0
    /\ accel = FALSE

Init ==
    \/ \E c \in QMKClasses : Idle(c, DefaultIndent)
    \/ \E ind \in KLEIndents : Idle("KLE", ind)

\* QMKJSONEncoder.__init__ (no indent given): a new instance at depth 0
ConstructQMK ==
    /\ phase = "idle"
    /\ \E c \in QMKClasses : cls' = c
    /\ indent' = DefaultIndent
    /\ indentation_level' = 0
    /\ UNCHANGED <<phase, op, obj, result, start, accel>>

\* KLEJSONEncoder(indent=ind)
ConstructKLE ==
    /\ phase = "idle"
    /\ cls' = "KLE"
    /\ \E ind \in KLEIndents : indent' = ind
    /\ indentation_level' = 0
    /\ UNCHANGED <<phase, op, obj, result, start, accel>>

\* encoder.encode(o) on an Info or Keymap printer
Encode ==
    /\ phase = "idle"
    /\ cls \in QMKClasses
    /\ indentation_level <= MaxLevel
    /\ \E o \in Docs :
        LET e == encode(cls, indentation_level, o)
        IN  /\ result' = e.r
            /\ indentation_level' = e.lvl
            /\ obj' = o
    /\ phase' = "done"
    /\ op' = "encode"
    /\ start' = indentation_level
    /\ UNCHANGED <<cls, indent, accel>>

\* encoder.encode(o) on a KLE encoder; c says whether json.encoder.c_make_encoder
\* is available (it is None where the C accelerator is missing)
KLEEncode ==
    /\ phase = "idle"
    /\ cls = "KLE"
    /\ \E o \in Docs, c \in BOOLEAN :
        /\ result' = KLE_encode(o, indent, c)
        /\ obj' = o
        /\ accel' = c
    /\ phase' = "done"
    /\ op' = "encode"
    /\ UNCHANGED <<cls, indent, indentation_level, start>>

\* "".join(encoder.iterencode(o)) on a KLE encoder
KLEIterencode ==
    /\ phase = "idle"
    /\ cls = "KLE"
    /\ \E o \in Docs, c \in BOOLEAN :
        /\ result' = KLE_iterencode(o, indent, FALSE, c)
        /\ obj' = o
        /\ accel' = c
    /\ phase' = "done"
    /\ op' = "iterencode"
    /\ UNCHANGED <<cls, indent, indentation_level, start>>

\* The caller takes what the call returned or raised; the instance stays.
Return ==
    /\ phase = "done"
    /\ phase' = "idle"
    /\ op' = "none"
    /\ obj' = NoCall
    /\ result' = NoCall
    /\ start' = 0
    /\ accel' = FALSE
    /\ UNCHANGED <<cls, indent, indentation_level>>

Next ==
    \/ ConstructQMK
    \/ ConstructKLE
    \/ Encode
    \/ KLEEncode
    \/ KLEIterencode
    \/ Return

Spec == Init /\ [][Next]_vars

(***************************** reading JSON text ****************************)
\* What the claims mean by "parsing the text as JSON": json.loads on texts over
\* the model's characters.  A parsed mapping keeps its pairs in the order of
\* the text.  Numbers are integers or decimals with one fractional digit.
RECURSIVE SkipWs(_, _)
SkipWs(s, i) == IF i <= Len(s) /\ s[i] \in {" ", "\n"} THEN SkipWs(s, i + 1) ELSE i

Fail == [ok |-> FALSE]

IsDigit(c) == c \in {"0", "1", "2", "3", "4", "5", "6", "7", "8", "9"}
DigitVal(c) == CHOOSE d \in 0..9 : Digit(d) = c

\* The characters of a string literal from position i, after its opening quote.
RECURSIVE ScanString(_, _, _)
ScanString(s, i, acc) ==
    IF i > Len(s) \/ s[i] = "\n" THEN Fail
    ELSE IF s[i] = "\"" THEN [ok |-> TRUE, v |-> acc, i |-> i + 1]
    ELSE IF s[i] = "\\"
         THEN IF i + 1 > Len(s) THEN Fail
              ELSE IF s[i + 1] \in {"\"", "\\"} THEN ScanString(s, i + 2, Append(acc, s[i + 1]))
              ELSE IF s[i + 1] = "n" THEN ScanString(s, i + 2, Append(acc, "\n"))
              ELSE Fail
    ELSE ScanString(s, i + 1, Append(acc, s[i]))

RECURSIVE ScanDigits(_, _, _)
ScanDigits(s, i, n) ==
    IF i <= Len(s) /\ IsDigit(s[i]) THEN ScanDigits(s, i + 1, 10 * n + DigitVal(s[i]))
    ELSE [n |-> n, i |-> i]

ScanNumber(s, i) ==
    LET neg == s[i] = "-"
        j == IF neg THEN i + 1 ELSE i
        whole == ScanDigits(s, j, 0)
        sign == IF neg THEN -1 ELSE 1
    IN  IF whole.i = j \/ (s[j] = "0" /\ whole.i > j + 1) THEN Fail
        ELSE IF whole.i <= Len(s) /\ s[whole.i] = "."
        THEN LET frac == ScanDigits(s, whole.i + 1, 0)
             IN  IF frac.i # whole.i + 2 THEN Fail
                 ELSE [ok |-> TRUE, v |-> VFloat(sign * (10 * whole.n + frac.n)), i |-> frac.i]
        ELSE [ok |-> TRUE, v |-> VInt(sign * whole.n), i |-> whole.i]

StartsWith(s, i, word) == i + Len(word) - 1 <= Len(s) /\ SubSeq(s, i, i + Len(word) - 1) = word

RECURSIVE ParseValue(_, _)
RECURSIVE ParseItems(_, _, _)
RECURSIVE ParsePairs(_, _, _)

\* The elements of an array from position i, at the start of an element.
ParseItems(s, i, acc) ==
    LET e == ParseValue(s, SkipWs(s, i))
    IN  IF ~e.ok THEN Fail
        ELSE LET j == SkipWs(s, e.i)
             IN  IF j > Len(s) THEN Fail
                 ELSE IF s[j] = "," THEN ParseItems(s, j + 1, Append(acc, e.v))
                 ELSE IF s[j] = "]" THEN [ok |-> TRUE, v |-> VList(Append(acc, e.v)), i |-> j + 1]
                 ELSE Fail

\* The pairs of an object from position i, at the start of a key.
ParsePairs(s, i, acc) ==
    LET j == SkipWs(s, i)
    IN  IF j > Len(s) \/ s[j] # "\"" THEN Fail
        ELSE LET k == ScanString(s, j + 1, <<>>)
             IN  IF ~k.ok THEN Fail
                 ELSE LET c == SkipWs(s, k.i)
                      IN  IF c > Len(s) \/ s[c] # ":" THEN Fail
                          ELSE LET e == ParseValue(s, SkipWs(s, c + 1))
                               IN  IF ~e.ok THEN Fail
                                   ELSE LET n == SkipWs(s, e.i)
                                            ps == Append(acc, KV(k.v, e.v))
                                        IN  IF n > Len(s) THEN Fail
                                            ELSE IF s[n] = "," THEN ParsePairs(s, n + 1, ps)
                                            ELSE IF s[n] = "}"
                                            THEN [ok |-> TRUE, v |-> VDict(ps), i |-> n + 1]
                                            ELSE Fail

ParseValue(s, i) ==
    IF i > Len(s) THEN Fail
    ELSE IF s[i] = "\"" THEN
        LET r == ScanString(s, i + 1, <<>>)
        IN  IF r.ok THEN [ok |-> TRUE, v |-> VStr(r.v), i |-> r.i] ELSE Fail
    ELSE IF s[i] = "[" THEN
        LET j == SkipWs(s, i + 1)
        IN  IF j <= Len(s) /\ s[j] = "]" THEN [ok |-> TRUE, v |-> VList(<<>>), i |-> j + 1]
            ELSE ParseItems(s, i + 1, <<>>)
    ELSE IF s[i] = "{" THEN
        LET j == SkipWs(s, i + 1)
        IN  IF j <= Len(s) /\ s[j] = "}" THEN [ok |-> TRUE, v |-> VDict(<<>>), i |-> j + 1]
            ELSE ParsePairs(s, i + 1, <<>>)
    ELSE IF StartsWith(s, i, <<"t", "r", "u", "e">>) THEN [ok |-> TRUE, v |-> VBool(TRUE), i |-> i + 4]
    ELSE IF StartsWith(s, i, <<"f", "a", "l", "s", "e">>) THEN [ok |-> TRUE, v |-> VBool(FALSE), i |-> i + 5]
    ELSE IF StartsWith(s, i, <<"n", "u", "l", "l">>) THEN [ok |-> TRUE, v |-> VNull, i |-> i + 4]
    ELSE IF s[i] = "-" \/ IsDigit(s[i]) THEN
        IF s[i] = "-" /\ i + 1 > Len(s) THEN Fail ELSE ScanNumber(s, i)
    ELSE Fail

\* json.loads(text): the document, or a failure to parse
JsonLoads(s) ==
    LET r == ParseValue(s, SkipWs(s, 1))
    IN  IF r.ok /\ SkipWs(s, r.i) = Len(s) + 1 THEN [ok |-> TRUE, v |-> r.v] ELSE Fail

(***************************** reading the output ***************************)
HasBreak(s) == \E i \in 1..Len(s) : s[i] = "\n"

Contains(s, part) ==
    \E i \in 1..(Len(s) - Len(part) + 1) : SubSeq(s, i, i + Len(part) - 1) = part

StartsWithText(s, part) == Len(s) >= Len(part) /\ SubSeq(s, 1, Len(part)) = part

EndsWithText(s, part) ==
    Len(s) >= Len(part) /\ SubSeq(s, Len(s) - Len(part) + 1, Len(s)) = part

\* The first line break of s at or after position i (Len(s) + 1 if none).
NextBreak(s, i) ==
    IF \E j \in i..Len(s) : s[j] = "\n"
    THEN CHOOSE j \in i..Len(s) : s[j] = "\n" /\ \A k \in i..(j - 1) : s[k] # "\n"
    ELSE Len(s) + 1

\* The lines of a text from position i on, split at its line breaks.
RECURSIVE LinesFrom(_, _)
LinesFrom(s, i) ==
    LET j == NextBreak(s, i)
    IN  <<SubSeq(s, i, j - 1)>> \o (IF j > Len(s) THEN <<>> ELSE LinesFrom(s, j + 1))

SplitLines(s) == LinesFrom(s, 1)

\* A line without its leading spaces.
LStrip(s) ==
    IF \A i \in 1..Len(s) : s[i] = " " THEN <<>>
    ELSE SubSeq(s, CHOOSE i \in 1..Len(s) : s[i] # " " /\ \A k \in 1..(i - 1) : s[k] = " ", Len(s))

\* The keys of a set in alphabetical order (the order of Python's str).
RECURSIVE AlphaSeq(_)
AlphaSeq(S) ==
    IF S = {} THEN <<>>
    ELSE LET m == CHOOSE x \in S : \A y \in S \ {x} : StrLess(x, y)
         IN  <<m>> \o AlphaSeq(S \ {m})

RECURSIVE Only(_, _)
Only(q, S) ==
    IF q = <<>> THEN <<>>
    ELSE (IF Head(q) \in S THEN <<Head(q)>> ELSE <<>>) \o Only(Tail(q), S)

Range(q) == {q[i] : i \in 1..Len(q)}

\* The keys `first` that are present, in that order, then every other key in
\* alphabetical order, then the keys `last` that are present.
Tiered(S, first, last) ==
    Only(first, S) \o AlphaSeq(S \ (Range(first) \cup Range(last))) \o Only(last, S)

KeySet(o) == Range(Keys(o.pairs))

IsScalar(v) == v.t \notin {"list", "dict"}

AllScalarValues(o) == \A i \in 1..Len(o.pairs) : IsScalar(o.pairs[i].v)

QMKDone == phase = "done" /\ cls \in QMKClasses

(***************************** C1 *******************************************)
\* The groups of a keycode list: its elements between the sentinels.
RECURSIVE Groups(_, _)
Groups(items, row) ==
    IF items = <<>> THEN <<row>>
    ELSE IF Head(items).s = JSON_NEWLINE THEN <<row>> \o Groups(Tail(items), <<>>)
    ELSE Groups(Tail(items), Append(row, Head(items).s))

Sentinels(items) == Cardinality({i \in 1..Len(items) : items[i].s = JSON_NEWLINE})

Quoted(strs) == [i \in 1..Len(strs) |-> <<"\"">> \o strs[i] \o <<"\"">>]

\* The lines between the opening bracket's line and the closing bracket's line.
RowLines(text) ==
    LET ls == SplitLines(text) IN SubSeq(ls, 2, Len(ls) - 1)

KeycodeListDone ==
    /\ phase = "done" /\ cls = "Keymap" /\ start = 2
    /\ obj.t = "list"
    /\ \A i \in 1..Len(obj.items) : obj.items[i].t = "str"

\* C1: a list of strings encoded by the Keymap printer at depth 2 has one row
\* line per sentinel plus one; row i holds exactly the quoted elements of the
\* i-th group, in order, joined by ", "; the sentinel is never printed.
C1_RowGrouping ==
    KeycodeListDone =>
        /\ result.t = "text"
        /\ LET rows == RowLines(result.s)
               groups == Groups(obj.items, <<>>)
           IN  /\ Len(rows) = Sentinels(obj.items) + 1
               /\ \A i \in 1..Len(rows) :
                    LStrip(rows[i]) = Join(<<",", " ">>, Quoted(groups[i]))
        /\ ~Contains(result.s, JSON_NEWLINE)

(***************************** C3 *******************************************)
\* C3: a non-empty mapping the Config printer encodes at depth 4 is on one
\* line, in the form { key: value, ... }, its keys in alphabetical order,
\* whatever its values are.
C3_LayoutOnOneLine ==
    (/\ phase = "done" /\ cls = "Info" /\ start = 4
     /\ obj.t = "dict" /\ obj.pairs # <<>> /\ result.t = "text")
    => /\ ~HasBreak(result.s)
       /\ StartsWithText(result.s, <<"{", " ">>)
       /\ EndsWithText(result.s, <<" ", "}">>)
       /\ JsonLoads(result.s).ok
       /\ Keys(JsonLoads(result.s).v.pairs) = AlphaSeq(KeySet(obj))

(***************************** C5 *******************************************)
RECURSIVE HasFloat(_)
HasFloat(v) ==
    CASE v.t = "float" -> TRUE
      [] v.t = "list" -> \E i \in 1..Len(v.items) : HasFloat(v.items[i])
      [] v.t = "dict" -> \E i \in 1..Len(v.pairs) : HasFloat(v.pairs[i].v)
      [] OTHER -> FALSE

RECURSIVE HasFractional(_)
HasFractional(v) ==
    CASE v.t = "float" -> v.f % 10 # 0
      [] v.t = "list" -> \E i \in 1..Len(v.items) : HasFractional(v.items[i])
      [] v.t = "dict" -> \E i \in 1..Len(v.pairs) : HasFractional(v.pairs[i].v)
      [] OTHER -> FALSE

\* C5: on every path of the KLE encoder (encode or iterencode, indent set or
\* not, C encoder available or not) a document whose floats are all whole is
\* printed with integer literals only: the text read back holds no float.
C5_WholeFloatsAsIntegers ==
    (/\ phase = "done" /\ cls = "KLE" /\ result.t = "text" /\ ~HasFractional(obj))
    => /\ JsonLoads(result.s).ok
       /\ ~HasFloat(JsonLoads(result.s).v)

(***************************** C6 *******************************************)
NumText(n) ==
    CASE n = VDec(20) -> <<"2">>
      [] n = VDec(25) -> <<"2", ".", "5">>
      [] n = VInt(2) -> <<"2">>

Numbers == {VDec(20), VDec(25), VInt(2)}

\* C6: for the Config and Keymap printers, 2.0 is printed as 2, 2.5 as 2.5 and
\* the integer 2 as 2, and encode returns that text at the root, inside a
\* sequence and as a mapping value.
C6_UniformNumbers ==
    (QMKDone /\ start = 0) =>
        /\ obj \in Numbers => result = Text(NumText(obj))
        /\ (obj.t = "list" /\ Len(obj.items) = 1 /\ obj.items[1] \in Numbers)
            => result = Text(<<"[">> \o NumText(obj.items[1]) \o <<"]">>)
        /\ (obj.t = "dict" /\ Len(obj.pairs) = 1 /\ obj.pairs[1].v \in Numbers)
            => /\ result.t = "text"
               /\ Contains(result.s, <<":", " ">> \o NumText(obj.pairs[1].v) \o <<"\n">>)

(***************************** C10 ******************************************)
\* C10: the depth after a call of encode equals the depth before it, however
\* the call ended, and is 0 between calls.
C10_BalancedDepth ==
    cls \in QMKClasses =>
        /\ phase = "done" => indentation_level = start
        /\ phase = "idle" => indentation_level = 0

(***************************** C2 *******************************************)
InfoFirst == <<manufacturer, keyboard_name, maintainer, processor, bootloader, usb, features>>
InfoLast == <<community_layouts, layout_aliases, layouts>>

TopLevelMappingDone ==
    /\ phase = "done" /\ cls = "Info" /\ start = 0
    /\ obj.t = "dict" /\ result.t = "text"

\* C2: the Config printer prints the keys of a top-level mapping in the order
\* manufacturer, keyboard_name, maintainer, processor, bootloader, usb,
\* features, then the other keys alphabetically, then community_layouts,
\* layout_aliases, layouts.
C2_TopLevelKeyOrder ==
    TopLevelMappingDone =>
        /\ JsonLoads(result.s).ok
        /\ Keys(JsonLoads(result.s).v.pairs) = Tiered(KeySet(obj), InfoFirst, InfoLast)

\* C2, witness: the mapping {layouts, manufacturer, usb, bootloader} is printed
\* as manufacturer, bootloader, usb, layouts.
C2_Witness ==
    /\ TopLevelMappingDone
    /\ Keys(obj.pairs) = <<layouts, manufacturer, usb, bootloader>>
    /\ Keys(JsonLoads(result.s).v.pairs) = <<manufacturer, bootloader, usb, layouts>>

(***************************** C8 *******************************************)
UsbFirst == <<vid, pid, device_ver>>

ValueOf(pairs, k) == pairs[CHOOSE i \in 1..Len(pairs) : pairs[i].k = k].v

\* C8: in a mapping nested directly inside the top-level mapping the Config
\* printer prints vid, pid, device_ver first and the other keys after them in
\* alphabetical order.
C8_Depth2KeyOrder ==
    TopLevelMappingDone =>
        /\ JsonLoads(result.s).ok
        /\ \A i \in 1..Len(obj.pairs) :
              obj.pairs[i].v.t = "dict" =>
                 Keys(ValueOf(JsonLoads(result.s).v.pairs, obj.pairs[i].k).pairs)
                    = Tiered(KeySet(obj.pairs[i].v), UsbFirst, <<>>)

(***************************** C9 *******************************************)
\* The expanded form of mapping o printed at depth lvl: an opening brace and a
\* line break, every entry beginning a line of its own one level deeper, the
\* closing brace on a line of its own at depth lvl.
ExpandedForm(text, o, lvl) ==
    /\ StartsWithText(text, <<"{", "\n">>)
    /\ EndsWithText(text, <<"\n">> \o Spaces(indent * lvl) \o <<"}">>)
    /\ Len(SplitLines(text)) >= Len(o.pairs) + 2
    /\ \A i \in 1..Len(o.pairs) :
          Contains(text, <<"\n">> \o Spaces(indent * (lvl + 1))
                            \o encode_basestring_ascii(o.pairs[i].k) \o <<":", " ">>)

MappingDone == QMKDone /\ obj.t = "dict" /\ obj.pairs # <<>> /\ result.t = "text"

\* C9 as stated: a non-empty mapping of scalars is printed on one line, and
\* with a nested container among its values in the expanded form.
C9_CompactionBoundary ==
    MappingDone =>
        IF AllScalarValues(obj) THEN ~HasBreak(result.s)
        ELSE ExpandedForm(result.s, obj, start)

\* C9 amended: a non-empty mapping is printed in the expanded form whether or
\* not its values are scalars (by the Keymap printer at every depth, by the
\* Config printer at every depth but 4, where it has the form { ... }).
C9_AlwaysExpanded ==
    MappingDone =>
        IF cls = "Info" /\ start = 4
        THEN StartsWithText(result.s, <<"{", " ">>) /\ EndsWithText(result.s, <<" ", "}">>)
        ELSE ExpandedForm(result.s, obj, start)

\* C9, witness: the Keymap printer has printed a mapping of two scalars on
\* several lines.
C9_Witness ==
    /\ MappingDone
    /\ cls = "Keymap"
    /\ Len(obj.pairs) = 2
    /\ AllScalarValues(obj)
    /\ HasBreak(result.s)

(***************************** C4 *******************************************)
RECURSIVE Supported(_)
Supported(v) ==
    CASE v.t = "bytes" -> FALSE
      [] v.t = "list" -> \A i \in 1..Len(v.items) : Supported(v.items[i])
      [] v.t = "dict" -> \A i \in 1..Len(v.pairs) : Supported(v.pairs[i].v)
      [] OTHER -> TRUE

IsNumber(v) == v.t \in {"int", "float", "dec"}
Tenths(v) == CASE v.t = "int" -> 10 * v.i [] v.t = "float" -> v.f [] v.t = "dec" -> v.d

\* Equality of documents: numbers by value, mappings whatever their order.
RECURSIVE SameDocument(_, _)
SameDocument(a, b) ==
    IF IsNumber(a) \/ IsNumber(b) THEN IsNumber(a) /\ IsNumber(b) /\ Tenths(a) = Tenths(b)
    ELSE IF a.t # b.t THEN FALSE
    ELSE CASE a.t = "list" ->
                /\ Len(a.items) = Len(b.items)
                /\ \A i \in 1..Len(a.items) : SameDocument(a.items[i], b.items[i])
           [] a.t = "dict" ->
                /\ KeySet(a) = KeySet(b)
                /\ Len(a.pairs) = Len(b.pairs)
                /\ \A i \in 1..Len(a.pairs) :
                      SameDocument(a.pairs[i].v, ValueOf(b.pairs, a.pairs[i].k))
           [] OTHER -> a = b

\* C4: the text encode returns for a document of finite scalars, sequences and
\* string-keyed mappings parses as JSON to a document equal to the input, and
\* encoding that document again gives the same text.
C4_RoundTrip ==
    (QMKDone /\ start = 0 /\ Supported(obj)) =>
        /\ result.t = "text"
        /\ JsonLoads(result.s).ok
        /\ SameDocument(JsonLoads(result.s).v, obj)
        /\ encode(cls, 0, JsonLoads(result.s).v).r = result

(***************************** C7 *******************************************)
Perms(n) == {p \in [1..n -> 1..n] : \A i, j \in 1..n : i # j => p[i] # p[j]}

\* The documents with the content of v whose mappings were filled in any order.
RECURSIVE Reorderings(_)
Reorderings(v) ==
    CASE v.t = "list" ->
            LET n == Len(v.items)
                opts == [i \in 1..n |-> Reorderings(v.items[i])]
            IN  {VList(f) : f \in {g \in [1..n -> UNION {opts[i] : i \in 1..n}] :
                                      \A i \in 1..n : g[i] \in opts[i]}}
      [] v.t = "dict" ->
            LET n == Len(v.pairs)
                opts == [i \in 1..n |-> Reorderings(v.pairs[i].v)]
            IN  {VDict([i \in 1..n |-> KV(v.pairs[p[i]].k, f[p[i]])]) :
                    p \in Perms(n),
                    f \in {g \in [1..n -> UNION {opts[i] : i \in 1..n}] :
                              \A i \in 1..n : g[i] \in opts[i]}}
      [] OTHER -> {v}

\* C7: two documents of the same content, their mappings filled in different
\* orders, are printed as the same text by the Config and Keymap printers.
C7_InsertionOrderIndependent ==
    QMKDone => \A d \in Reorderings(obj) : encode(cls, start, d).r = result

====
